---- MODULE Spec2Model ----
(***************************************************************************)
(* A model of gitalong's batched resolution pipeline (gitalong/batch.py),  *)
(* its JSONBin ledger store (gitalong/stores/jsonbin_store.py) and the     *)
(* ledger update that the command line (gitalong/cli.py) asks for.         *)
(*                                                                         *)
(* Python dictionaries are functions whose DOMAIN is the set of keys, so   *)
(* that `"sha" in commit`, `commit.get(k, d)` and `del commit[k]` keep     *)
(* their meaning.  The empty dictionary {} is the empty function <<>>.     *)
(* A Python list is a sequence.  An operation either returns a value or    *)
(* raises: every outcome carries a field `raised` that names the exception *)
(* ("none" when the operation returned).                                   *)
(***************************************************************************)
EXTENDS Integers, Sequences, FiniteSets, TLC

VARIABLES
    transport,  \* the ledger held by the JSONBin endpoint (a list of records)
    cache,      \* per clone: the file .gitalong/commits.json
    fetchHead,  \* per clone: age of the last fetch (what pulled_within reads)
    config,     \* the repository configuration (.gitalong.json, shared by the clones)
    readOnly,   \* per file: TRUE when the file is read-only on disk
    frame,      \* per clone: the call in progress and its local variables
    ret,        \* the outcome of the call that just ended, until the caller goes on
    lastTransfer \* per clone: its last transfer the endpoint answered with 200

vars ==
    <<transport, cache, fetchHead, config, readOnly, frame, ret, lastTransfer>>

----------------------------------------------------------------------------
(* Bounds of the model *)

\* pull_threshold, in clock ticks (the configuration default is 60 seconds).
PullThreshold == 2
\* The ledger never grows beyond this number of records.
MaxLedger == 2
\* The date a new claim carries: later than every date of InitLedgers.
Today == 4

\* Ages at or above the threshold are all alike to modified_within.
MaxAge == PullThreshold

----------------------------------------------------------------------------
(* Python values *)

None == "None"
EmptyDict == <<>>

\* dict.get(key, default)
DictGet(d, key, default) == IF key \in DOMAIN d THEN d[key] ELSE default

\* del d[key]
DictDel(d, key) == [k \in (DOMAIN d) \ {key} |-> d[k]]

\* Truthiness of a dictionary or of an object: only {} is false.
Truthy(v) == v # EmptyDict

\* The outcome of an operation that returned `v`.
Return(v) == [raised |-> "none", value |-> v]

\* The outcome of an operation that raised `exc`.
Raise(exc) == [raised |-> exc, value |-> None]

\* The element of a one-element set.  A value that is used more than once is
\* bound as the element of such a set, so that it is computed once.
Only(S) == CHOOSE x \in S : TRUE

Min(a, b) == IF a < b THEN a ELSE b

----------------------------------------------------------------------------
(* The world: clones, files, records *)

\* Working directories of the managed clones; all of them clone one remote.
Clones == {"c1", "c2"}

\* The clone whose process runs the batch operations.
Actors == {"c1"}

OriginUrl == "origin-url"

\* Repository.remote_url
remote_url(c) == OriginUrl

\* Paths relative to the repository root.  The second one is another
\* spelling of the first, equal to it after os.path.normpath.
RelPaths == {"art/model.fbx", "art//model.fbx", "art/tex.png"}

\* os.path.normpath: collapses the doubled separator.
normpath(p) == IF p = "art//model.fbx" THEN "art/model.fbx" ELSE p

\* Roots that hold no configured repository: "tmp" is no git repository
\* (InvalidGitRepositoryError), "plain" is a git repository where gitalong
\* was never set up (RepositoryNotSetup).
UnmanagedRoots == {"tmp", "plain"}

\* An absolute filename is a root and a path below it.
File(root, rel) == [root |-> root, rel |-> rel]

ManagedFiles(c) == {File(c, p) : p \in {"art/model.fbx", "art/tex.png"}}

UnmanagedFiles == {File(r, "notes.txt") : r \in UnmanagedRoots}

AllFiles == UNION {ManagedFiles(c) : c \in Clones} \cup UnmanagedFiles

\* Repository.get_relative_path
get_relative_path(c, filename) == filename.rel

\* Records of the ledger.  A claim has no `sha`.
Commit(sha, remote, clone, changes, date) ==
    [sha |-> sha, remote |-> remote, clone |-> clone, changes |-> changes,
     date |-> date]

Claim(remote, clone, changes, date) ==
    [remote |-> remote, clone |-> clone, changes |-> changes, date |-> date]

RecAbc == Commit("abc", OriginUrl, "c1", <<"art/model.fbx">>, 1)
RecDef == Commit("def", OriginUrl, "c2", <<"art//model.fbx", "art/tex.png">>, 2)
RecOther == Commit("abc", "other-url", "c1", <<"art/model.fbx">>, 3)
RecClaim == Claim(OriginUrl, "c2", <<"art/model.fbx">>, 3)

\* The ledgers the endpoint may hold when the program starts.  Storage
\* enforces no uniqueness: a ledger may hold the same record twice.
InitLedgers ==
    { <<>>,
      <<RecAbc, RecAbc>>,
      <<RecAbc, RecDef>>,
      <<RecDef, RecAbc>>,
      <<RecOther, RecClaim>> }

\* The configuration dictionaries a clone may be set up with.
Configs ==
    { EmptyDict,
      [track_uncommitted |-> FALSE, modify_permissions |-> TRUE],
      [track_uncommitted |-> TRUE, modify_permissions |-> FALSE] }

----------------------------------------------------------------------------
(* The local cache file and the clock *)

NoFile == [exists |-> FALSE, age |-> 0, content |-> <<>>]

\* Store._write_local_json: the file now holds `commits` and is new.
write_local_json(commits) == [exists |-> TRUE, age |-> 0, content |-> commits]

\* Store._read_local_json
read_local_json(file) == file.content

\* functions.modified_within: the file exists and was modified less than
\* `seconds` ago.
modified_within(file, seconds) == file.exists /\ file.age < seconds

\* functions.pulled_within: FETCH_HEAD was modified less than `seconds` ago.
pulled_within(fetch_head, seconds) == modified_within(fetch_head, seconds)

\* One tick of the clock ages a file.
Aged(file) == IF file.exists THEN [file EXCEPT !.age = Min(@ + 1, MaxAge)] ELSE file

----------------------------------------------------------------------------
(* JsonbinStore *)

\* The answers of the endpoint: 200, or a failure.
StatusCodes == {200, 500}

\* requests.get(self._url, ...): the endpoint answers with its ledger under
\* the "record" envelope.
requests_get(ledger, status) == [status_code |-> status, record |-> ledger]

\* The getter with the cache refresh left out.
commits_without_refresh(file, ledger, status) ==
    IF modified_within(file, PullThreshold)
    THEN Return(read_local_json(file)) @@ [file |-> file, gets |-> 0]
    ELSE IF status = 200
         THEN Return(ledger) @@ [file |-> file, gets |-> 1]
         ELSE Raise("StoreNotReachable") @@ [file |-> file, gets |-> 1]

\* JsonbinStore.commits (getter), for the cache file `file` of the clone and
\* the ledger `ledger` at the endpoint.  `status` is the answer the endpoint
\* gives if it is asked.  The outcome also tells what became of the cache
\* file and how many GETs were issued.
commits(file, ledger, status) ==
    LET pull_threshold == DictGet(config, "pull_threshold", PullThreshold)
        response == requests_get(ledger, status)
    IN  IF modified_within(file, pull_threshold)
        THEN Return(read_local_json(file)) @@ [file |-> file, gets |-> 0]
        ELSE IF response.status_code = 200
             THEN Return(response.record)
                  @@ [file |-> write_local_json(response.record), gets |-> 1]
             ELSE Raise("StoreNotReachable") @@ [file |-> file, gets |-> 1]

\* The setter with the cache left as it was after a 200 PUT.
commits_setter_without_cache(file, ledger, new_commits, status) ==
    IF status = 200
    THEN Return(None) @@ [transport |-> new_commits, file |-> file,
                          puts |-> 1]
    ELSE Raise("StoreNotReachable")
         @@ [transport |-> ledger, file |-> file, puts |-> 1]

\* The setter with the PUT adding to the array instead of replacing it.
commits_setter_appending(file, ledger, new_commits, status) ==
    IF status = 200
    THEN Return(None) @@ [transport |-> ledger \o new_commits,
                          file |-> write_local_json(new_commits), puts |-> 1]
    ELSE Raise("StoreNotReachable")
         @@ [transport |-> ledger, file |-> file, puts |-> 1]

\* The setter with the cache written before the answer is looked at.
commits_setter_caching_first(file, ledger, new_commits, status) ==
    IF status = 200
    THEN Return(None) @@ [transport |-> new_commits,
                          file |-> write_local_json(new_commits), puts |-> 1]
    ELSE Raise("StoreNotReachable")
         @@ [transport |-> ledger, file |-> write_local_json(new_commits),
             puts |-> 1]

\* JsonbinStore.commits (setter).  One PUT replaces the whole array at the
\* endpoint; the cache file is written after a 200 only.
commits_setter(file, ledger, new_commits, status) ==
    IF status = 200
    THEN Return(None) @@ [transport |-> new_commits,
                          file |-> write_local_json(new_commits), puts |-> 1]
    ELSE Raise("StoreNotReachable")
         @@ [transport |-> ledger, file |-> file, puts |-> 1]

NoTransfer == [kind |-> "none", ledger |-> <<>>]

\* The last 200 transfer of a clone after a getter outcome.
AfterGet(transfer, ledger, out) ==
    IF out.gets = 1 /\ out.raised = "none"
    THEN [kind |-> "get", ledger |-> ledger]
    ELSE transfer

\* The last 200 transfer of a clone after a setter outcome.
AfterPut(transfer, new_commits, out) ==
    IF out.raised = "none"
    THEN [kind |-> "put", ledger |-> new_commits]
    ELSE transfer

Idle == [op |-> "idle"]

----------------------------------------------------------------------------
(* Time *)

\* One tick of the clock: every file grows older.
Tick ==
    /\ \E c \in Clones : cache[c].age < MaxAge \/ fetchHead[c].age < MaxAge
    /\ cache' = [c \in Clones |-> Aged(cache[c])]
    /\ fetchHead' = [c \in Clones |-> Aged(fetchHead[c])]
    /\ UNCHANGED <<transport, config, readOnly, frame, ret, lastTransfer>>

----------------------------------------------------------------------------
(* Repository.update_tracked_commits(claims): read the ledger, add this    *)
(* clone's claim on `claims`, write the whole ledger back.  Another clone  *)
(* may act between the read and the write.                                 *)

\* The list update_tracked_commits writes back.
update_tracked_commits_list(c, tracked_commits, claims) ==
    IF claims = <<>> THEN tracked_commits
    ELSE Append(tracked_commits, Claim(remote_url(c), c, claims, Today))

\* The lists of repository-relative paths a clone claims in one go.
ClaimLists == {<<>>, <<"art/model.fbx">>}

UpdateRead(c) ==
    /\ frame[c] = Idle
    /\ \E status \in StatusCodes, claims \in ClaimLists :
         LET out == commits(cache[c], transport, status)
         IN  /\ cache' = [cache EXCEPT ![c] = out.file]
             /\ lastTransfer' =
                    [lastTransfer EXCEPT ![c] = AfterGet(@, transport, out)]
             /\ frame' = [frame EXCEPT ![c] =
                    IF out.raised = "none"
                    THEN [op |-> "update", tracked_commits |-> out.value,
                          claims |-> claims, gets |-> out.gets,
                          status |-> IF out.gets = 1 THEN status ELSE 0]
                    ELSE Idle]
             /\ ret' = IF out.raised = "none" THEN Idle
                       ELSE [op |-> "update", clone |-> c,
                             raised |-> out.raised, value |-> None,
                             gets |-> out.gets, status |-> status]
    /\ UNCHANGED <<transport, fetchHead, config, readOnly>>

UpdateWrite(c) ==
    /\ frame[c].op = "update"
    /\ Len(update_tracked_commits_list(c, frame[c].tracked_commits,
                                       frame[c].claims)) <= MaxLedger
    /\ \E status \in StatusCodes :
         LET new_commits ==
                 update_tracked_commits_list(c, frame[c].tracked_commits,
                                             frame[c].claims)
             out == commits_setter(cache[c], transport, new_commits, status)
         IN  /\ transport' = out.transport
             /\ cache' = [cache EXCEPT ![c] = out.file]
             /\ lastTransfer' =
                    [lastTransfer EXCEPT ![c] = AfterPut(@, new_commits, out)]
             /\ ret' = [op |-> "update", clone |-> c, raised |-> out.raised,
                        value |-> None, status |-> status,
                        raced |-> frame[c].tracked_commits # transport]
    /\ frame' = [frame EXCEPT ![c] = Idle]
    /\ UNCHANGED <<fetchHead, config, readOnly>>

----------------------------------------------------------------------------
(* enums.CommitSpread: one flag for each place a commit can be in *)

MINE_UNCOMMITTED == 1
MINE_ACTIVE_BRANCH == 2
MINE_OTHER_BRANCH == 4
REMOTE_MATCHING_BRANCH == 8
REMOTE_OTHER_BRANCH == 16
THEIR_OTHER_BRANCH == 32
THEIR_MATCHING_BRANCH == 64
THEIR_UNCOMMITTED == 128

\* spread & flag == flag
HasFlag(spread, flag) == (spread \div flag) % 2 = 1

TheirFlags == {THEIR_OTHER_BRANCH, THEIR_MATCHING_BRANCH, THEIR_UNCOMMITTED}

\* The masks Repository.get_commit_spread answers in the model.
Spreads ==
    { 0, MINE_ACTIVE_BRANCH, MINE_OTHER_BRANCH, THEIR_MATCHING_BRANCH,
      THEIR_UNCOMMITTED + MINE_ACTIVE_BRANCH }

----------------------------------------------------------------------------
(* The external version-control commands *)

\* What a child process may do: exit non-zero, or exit 0 with or without
\* output.
Procs ==
    { [returncode |-> 1, stdout |-> ""],
      [returncode |-> 0, stdout |-> ""],
      [returncode |-> 0, stdout |-> "* main"] }

\* run_command: raises when an argument is no string (the child process is
\* never started) or when the child exits non-zero; returns the decoded and
\* stripped stdout, a str, otherwise.
run_command(args_are_strings, proc) ==
    IF ~args_are_strings THEN Raise("TypeError")
    ELSE IF proc.returncode # 0 THEN Raise("Exception")
    ELSE Return(proc.stdout)

\* `stdout = result[0]; stdout.decode("utf-8")` for a result that is a str:
\* indexing the empty str raises IndexError, and a str has no decode.
decode_first(result) ==
    IF result = "" THEN Raise("IndexError") ELSE Raise("AttributeError")

\* get_commits_branches.  The first turn of the loop builds the command of
\* commits[1] (without `remote` its fourth argument is the list []), hands it
\* to run_command, gathers, and decodes the first result: every way through
\* that turn raises, so only the empty list of commits gets a list back.
get_commits_branches(commits_, remote, proc) ==
    IF commits_ = <<>> THEN Return(<<>>)
    ELSE LET result == run_command(remote, proc)
         IN  IF result.raised # "none" THEN Raise(result.raised)
             ELSE decode_first(result.value)

\* A raw commit object of the version-control library (no dictionary).
RawCommit(sha, c) == [hexsha |-> sha, repo |-> c]

\* isinstance(commit, dict)
IsDict(commit) == "hexsha" \notin DOMAIN commit

\* get_commit_changes: the stored changes of the dictionaries first, then the
\* decoded output of one diff per raw commit.
get_commit_changes(commits_, proc) ==
    LET dicts == SelectSeq(commits_, IsDict)
        raws == SelectSeq(commits_, LAMBDA x : ~IsDict(x))
        changes_list == [i \in 1..Len(dicts) |-> DictGet(dicts[i], "changes", <<>>)]
        result == run_command(TRUE, proc)
    IN  IF raws = <<>> THEN Return(changes_list)
        ELSE IF result.raised # "none" THEN Raise(result.raised)
        ELSE decode_first(result.value)

\* get_commits_dicts
get_commits_dicts(commits_, proc) ==
    LET changes_list == get_commit_changes(commits_, proc)
    IN  IF changes_list.raised # "none" THEN Raise(changes_list.raised)
        ELSE Return([i \in 1..Min(Len(commits_), Len(changes_list.value)) |->
                 IF IsDict(commits_[i]) THEN commits_[i]
                 ELSE [sha |-> commits_[i].hexsha, remote |-> OriginUrl,
                       changes |-> changes_list.value[i], date |-> Today,
                       author |-> "author"]])

----------------------------------------------------------------------------
(* get_files_last_commits *)

\* get_repository_safe: the clone that holds the file, or None.
get_repository_safe(filename) ==
    IF filename.root \in Clones THEN filename.root ELSE None

\* Lines 71-74: how often the record is appended, once for every change that
\* equals the filename after normalisation.
RECURSIVE matching_changes(_, _)
matching_changes(changes, filename) ==
    IF changes = <<>> THEN 0
    ELSE (IF normpath(Head(changes)) = normpath(filename) THEN 1 ELSE 0)
         + matching_changes(Tail(changes), filename)

Repeat(x, n) == [i \in 1..n |-> x]

\* The filter with the track_uncommitted test left out.
RECURSIVE relevant_ignoring_option(_, _, _, _)
relevant_ignoring_option(tracked_commits, filename, remote, track_uncommitted) ==
    IF tracked_commits = <<>> THEN <<>>
    ELSE LET tracked_commit == Head(tracked_commits)
             rest == relevant_ignoring_option(Tail(tracked_commits), filename,
                                              remote, track_uncommitted)
         IN  IF DictGet(tracked_commit, "remote", None) # remote
             THEN rest
             ELSE Repeat(tracked_commit,
                         matching_changes(DictGet(tracked_commit, "changes", <<>>),
                                          filename)) \o rest

\* Lines 63-74: the relevant tracked commits, in ledger order.
RECURSIVE relevant_tracked_commits(_, _, _, _)
relevant_tracked_commits(tracked_commits, filename, remote, track_uncommitted) ==
    IF tracked_commits = <<>> THEN <<>>
    ELSE LET tracked_commit == Head(tracked_commits)
             rest == relevant_tracked_commits(Tail(tracked_commits), filename,
                                              remote, track_uncommitted)
         IN  IF \/ (~track_uncommitted /\ "sha" \notin DOMAIN tracked_commit)
                \/ DictGet(tracked_commit, "remote", None) # remote
             THEN rest
             ELSE Repeat(tracked_commit,
                         matching_changes(DictGet(tracked_commit, "changes", <<>>),
                                          filename)) \o rest

\* The sort left out: the list stays in ledger order.
unsorted(l) == l

\* list.sort(key=date): stable, the record is put behind those not newer.
sort_insert(sorted, x) ==
    LET k == Cardinality({i \in 1..Len(sorted) : sorted[i].date <= x.date})
    IN  SubSeq(sorted, 1, k) \o <<x>> \o SubSeq(sorted, k + 1, Len(sorted))

RECURSIVE sort_by_date(_)
sort_by_date(l) ==
    IF l = <<>> THEN <<>>
    ELSE sort_insert(sort_by_date(SubSeq(l, 1, Len(l) - 1)), l[Len(l)])

\* list.remove(x): drops the first element equal to x.
RECURSIVE list_remove(_, _)
list_remove(l, x) ==
    IF l = <<>> THEN <<>>
    ELSE IF Head(l) = x THEN Tail(l)
    ELSE <<Head(l)>> \o list_remove(Tail(l), x)

\* Repository.context_dict: the keys that tell where a record comes from.
ContextKeys == {"clone"}

\* Lines 89-91
strip_context(commit) == [k \in (DOMAIN commit) \ ContextKeys |-> commit[k]]

\* What the environment does during one call: the answer of the endpoint,
\* the fate of the child processes, whether a fetch succeeds, and what the
\* history holds for the path ("abc": the log names commit abc; "head": the
\* log is empty and repo.commit("") resolves to HEAD; "error": the log is
\* empty and repo.commit("") raises).
\* `spread` is what Repository.get_commit_spread answers for the last commit,
\* `exists` what os.path.exists answers for the file, and `toggle_ok` tells
\* whether the operating system lets set_read_only change the file.
AllGood ==
    [status |-> 200, proc |-> [returncode |-> 0, stdout |-> "* main"],
     fetch_ok |-> TRUE, history |-> "abc", spread |-> 0, exists |-> TRUE,
     toggle_ok |-> TRUE]

\* The environments of a call: all goes well, or one thing differs.
Envs ==
    {AllGood}
    \cup {[AllGood EXCEPT !.status = x] : x \in StatusCodes}
    \cup {[AllGood EXCEPT !.proc = x] : x \in Procs}
    \cup {[AllGood EXCEPT !.fetch_ok = x] : x \in BOOLEAN}
    \cup {[AllGood EXCEPT !.history = x] : x \in {"abc", "head", "error"}}
    \cup {[AllGood EXCEPT !.spread = x] : x \in Spreads}
    \cup {[AllGood EXCEPT !.exists = x] : x \in BOOLEAN}
    \cup {[AllGood EXCEPT !.toggle_ok = x] : x \in BOOLEAN}

\* The local variables of a call that outlive one turn of the loop, and what
\* the call did to the store and to the files of the clone.
StartOfCall(c) ==
    [raised |-> "none", last_commits |-> <<>>, file |-> cache[c],
     fetch_head |-> fetchHead[c], transport |-> transport,
     transfer |-> lastTransfer[c], read_only |-> readOnly, gets |-> 0,
     puts |-> 0, fetches |-> 0, logs |-> 0, fetched_for |-> <<>>,
     logged |-> <<>>, selected |-> <<>>,
     healed |-> <<>>, tracked_commits |-> <<>>, relevant |-> <<>>,
     path |-> None]

\* Lines 93-107: no ledger record applies, ask the history.
history_fallback(c, st, e) ==
    LET pull_threshold == DictGet(config, "pull_threshold", PullThreshold)
        fetching == ~pulled_within(st.fetch_head, pull_threshold)
        fetched == [st EXCEPT
                      !.fetches = @ + (IF fetching THEN 1 ELSE 0),
                      !.fetched_for = IF fetching THEN Append(@, st.path) ELSE @,
                      !.logged = Append(@, st.path),
                      !.fetch_head = IF fetching /\ e.fetch_ok
                                     THEN write_local_json(<<>>) ELSE @,
                      !.logs = @ + 1]
    IN  CASE e.history = "abc" ->
                 [fetched EXCEPT !.last_commits = Append(@, RawCommit("abc", c))]
          [] e.history = "head" ->
                 [fetched EXCEPT !.last_commits = Append(@, RawCommit("HEAD", c))]
          [] OTHER -> [fetched EXCEPT !.raised = "ValueError"]

\* The ledger record is selected and the history is asked all the same.
ledger_hit_and_history(c, st, tracked_commits, relevant, e) ==
    history_fallback(
        c, [st EXCEPT !.selected =
                          Append(@, sort_by_date(relevant)[Len(relevant)])], e)

\* Lines 75-91: a ledger record applies.
ledger_hit(c, st, tracked_commits, relevant, e) ==
    Only({
        LET branches_list == get_commits_branches(<<last_commit>>, TRUE, e.proc)
            chosen == [st EXCEPT !.selected = Append(@, last_commit)]
            left == list_remove(tracked_commits, last_commit)
            out == commits_setter(st.file, st.transport, left, e.status)
        IN  IF branches_list.raised # "none"
            THEN [chosen EXCEPT !.raised = branches_list.raised]
            ELSE IF "sha" \in DOMAIN last_commit /\ branches_list.value[1] # {}
            THEN [chosen EXCEPT
                     !.raised = out.raised,
                     !.transport = out.transport,
                     !.file = out.file,
                     !.transfer = AfterPut(@, left, out),
                     !.puts = @ + 1,
                     !.healed = Append(@, last_commit),
                     !.last_commits = Append(@, strip_context(last_commit))]
            ELSE [chosen EXCEPT !.last_commits = Append(@, last_commit)]
        : last_commit \in {sort_by_date(relevant)[Len(relevant)]} })

\* Lines 59-107: the ledger was read (`out`), find the last commit.
after_read(repository, st, filename, e, out) ==
    Only({
        Only({
            IF relevant # <<>>
            THEN ledger_hit(repository, read, out.value, relevant, e)
            ELSE history_fallback(repository, read, e)
            : read \in {[st EXCEPT
                            !.file = out.file, !.gets = @ + out.gets,
                            !.transfer = AfterGet(@, st.transport, out),
                            !.tracked_commits = out.value,
                            !.relevant = relevant,
                            !.path = get_relative_path(repository, filename)]} })
        : relevant \in {relevant_tracked_commits(
                            out.value, get_relative_path(repository, filename),
                            remote_url(repository),
                            DictGet(config, "track_uncommitted", FALSE))} })

\* Lines 47-109: one turn of the loop, for `filename`.
loop_body(c, st, filename, e) ==
    LET repository == get_repository_safe(filename)
    IN  IF repository = None
        THEN [st EXCEPT !.last_commits = Append(@, EmptyDict)]
        ELSE Only({
                 IF out.raised # "none"
                 THEN [st EXCEPT !.file = out.file, !.gets = @ + out.gets,
                                 !.transfer = AfterGet(@, st.transport, out),
                                 !.raised = out.raised]
                 ELSE after_read(repository, st, filename, e, out)
                 : out \in {commits(st.file, st.transport, e.status)} })

\* Lines 46-109: the loop over the filenames; an exception ends it.
RECURSIVE files_loop(_, _, _, _)
files_loop(c, st, filenames, e) ==
    IF filenames = <<>> \/ st.raised # "none" THEN st
    ELSE Only({ files_loop(c, next, Tail(filenames), e)
                : next \in {loop_body(c, st, Head(filenames), e)} })

\* Lines 115-123: the branch names found are stored under "branches".
with_branches(commit, local_branches, remote_branches) ==
    LET found == [k \in ({"local"} \cap (IF local_branches # {} THEN {"local"} ELSE {}))
                         \cup (IF remote_branches # {} THEN {"remote"} ELSE {})
                     |-> IF k = "local" THEN local_branches ELSE remote_branches]
    IN  IF found = <<>> THEN commit ELSE commit @@ [branches |-> found]

\* Lines 111-125: the enrichment of the whole batch.
enrich(last_commits, e) ==
    LET last_commit_dicts == get_commits_dicts(last_commits, e.proc)
        local_branches_list ==
            get_commits_branches(last_commit_dicts.value, FALSE, e.proc)
        remote_branches_list ==
            get_commits_branches(last_commit_dicts.value, TRUE, e.proc)
    IN  IF last_commit_dicts.raised # "none" THEN Raise(last_commit_dicts.raised)
        ELSE IF local_branches_list.raised # "none"
        THEN Raise(local_branches_list.raised)
        ELSE IF remote_branches_list.raised # "none"
        THEN Raise(remote_branches_list.raised)
        ELSE Return([i \in 1..Len(local_branches_list.value) |->
                 with_branches(last_commit_dicts.value[i],
                               local_branches_list.value[i],
                               remote_branches_list.value[i])])

\* get_files_last_commits: the state of the call when it ends, with its
\* outcome in `raised` and `value`.
get_files_last_commits(c, start, filenames, e) ==
    Only({
        IF st.raised # "none" THEN st @@ [value |-> None]
        ELSE Only({ [st EXCEPT !.raised = enriched.raised]
                        @@ [value |-> enriched.value]
                    : enriched \in {enrich(st.last_commits, e)} })
        : st \in {files_loop(c, [start EXCEPT !.last_commits = <<>>],
                             filenames, e)} })

\* The lists of filenames a process working in clone c hands to one call.
FileLists(c) ==
    LET model == File(c, "art/model.fbx")
        tex == File(c, "art/tex.png")
        tmp == File("tmp", "notes.txt")
        plain == File("plain", "notes.txt")
    IN  { <<>>, <<model>>, <<tex>>, <<tmp>>, <<tmp, model>>, <<tmp, plain>>,
          <<tex, model>> }

\* What `ret` keeps of a call: its arguments, the environment it ran in, its
\* outcome, and what the call did on its way (for the managed filename
\* handled last: the ledger read and the relevant records found in it).
Outcome(op, c, filenames, e, r) ==
    [op |-> op, clone |-> c, filenames |-> filenames, env |-> e,
     raised |-> r.raised, value |-> r.value, gets |-> r.gets,
     puts |-> r.puts, fetches |-> r.fetches, logs |-> r.logs,
     fetched_for |-> r.fetched_for, logged |-> r.logged,
     selected |-> r.selected, healed |-> r.healed,
     tracked_commits |-> r.tracked_commits, relevant |-> r.relevant,
     path |-> r.path]

GetFilesLastCommits(c) ==
    /\ frame[c] = Idle
    /\ ret = Idle
    /\ \E filenames \in FileLists(c), e \in Envs :
         \E r \in {get_files_last_commits(c, StartOfCall(c), filenames, e)} :
             /\ transport' = r.transport
             /\ cache' = [cache EXCEPT ![c] = r.file]
             /\ fetchHead' = [fetchHead EXCEPT ![c] = r.fetch_head]
             /\ lastTransfer' = [lastTransfer EXCEPT ![c] = r.transfer]
             /\ ret' = Outcome("get_files_last_commits", c, filenames, e, r)
    /\ UNCHANGED <<config, readOnly, frame>>

----------------------------------------------------------------------------
(* get_commits_branches, called on its own *)

CommitLists ==
    { <<>>, <<EmptyDict>>, <<RecAbc>>, <<RecAbc, RecDef>> }

GetCommitsBranches(c) ==
    /\ frame[c] = Idle
    /\ ret = Idle
    /\ \E commits_ \in CommitLists, remote \in BOOLEAN, proc \in Procs :
         LET r == get_commits_branches(commits_, remote, proc)
         IN  ret' = [op |-> "get_commits_branches", clone |-> c,
                     commits |-> commits_, remote |-> remote, proc |-> proc,
                     raised |-> r.raised, value |-> r.value]
    /\ UNCHANGED <<transport, cache, fetchHead, config, readOnly, frame,
                   lastTransfer>>

----------------------------------------------------------------------------
(* get_commit_changes, called on its own *)

\* Lists that hold dictionaries, raw commits, or both.
ChangeLists ==
    { <<>>, <<RecAbc>>, <<RecDef, RecAbc>>, <<RawCommit("abc", "c1")>>,
      <<RawCommit("abc", "c1"), RecDef>> }

GetCommitChanges(c) ==
    /\ frame[c] = Idle
    /\ ret = Idle
    /\ \E commits_ \in ChangeLists, proc \in Procs :
         LET r == get_commit_changes(commits_, proc)
         IN  ret' = [op |-> "get_commit_changes", clone |-> c,
                     commits |-> commits_, proc |-> proc,
                     raised |-> r.raised, value |-> r.value]
    /\ UNCHANGED <<transport, cache, fetchHead, config, readOnly, frame,
                   lastTransfer>>

----------------------------------------------------------------------------
(* claim_files *)

\* functions.set_read_only
set_read_only(read_only, filename, flag) == [read_only EXCEPT ![filename] = flag]

\* Lines 264-270: the commit that stands in the way of the claim, {} if none.
missing_commit_of(spread, last_commit) ==
    LET is_local_commit == HasFlag(spread, MINE_ACTIVE_BRANCH)
        is_uncommitted == HasFlag(spread, MINE_UNCOMMITTED)
    IN  IF is_local_commit \/ is_uncommitted THEN EmptyDict ELSE last_commit

\* Lines 258-275: one turn of the loop of claim_files.  `st` also carries the
\* list of missing commits.
claim_body(c, st, filename, e) ==
    Only({
        LET last_commit == r.value[1]
            repository == get_repository_safe(filename)
            config_ == IF repository # None THEN config ELSE EmptyDict
            modify_permissions == DictGet(config_, "modify_permissions", FALSE)
            spread == IF repository # None THEN e.spread ELSE 0
            missing_commit == missing_commit_of(spread, last_commit)
            after == [k \in DOMAIN st |-> IF k = "missing_commits"
                                          THEN st.missing_commits ELSE r[k]]
            toggling == /\ e.exists
                        /\ ~Truthy(missing_commit)
                        /\ modify_permissions
        IN  IF r.raised # "none" THEN after
            ELSE IF toggling /\ ~e.toggle_ok
            THEN [after EXCEPT !.raised = "PermissionError"]
            ELSE [after EXCEPT
                     !.read_only =
                         IF toggling
                         THEN set_read_only(@, filename, Truthy(missing_commit))
                         ELSE @,
                     !.missing_commits = Append(@, missing_commit)]
        : r \in {get_files_last_commits(c, st, <<filename>>, e)} })

RECURSIVE claim_loop(_, _, _, _)
claim_loop(c, st, filenames, e) ==
    IF filenames = <<>> \/ st.raised # "none" THEN st
    ELSE Only({ claim_loop(c, next, Tail(filenames), e)
                : next \in {claim_body(c, st, Head(filenames), e)} })

\* claim_files: the state of the call when it ends.
claim_files(c, filenames, e) ==
    Only({ st @@ [value |-> IF st.raised = "none"
                            THEN st.missing_commits ELSE None]
           : st \in {claim_loop(c, StartOfCall(c) @@ [missing_commits |-> <<>>],
                                filenames, e)} })

ClaimFiles(c) ==
    /\ frame[c] = Idle
    /\ ret = Idle
    /\ \E filenames \in FileLists(c), e \in Envs :
         \E r \in {claim_files(c, filenames, e)} :
             /\ transport' = r.transport
             /\ cache' = [cache EXCEPT ![c] = r.file]
             /\ fetchHead' = [fetchHead EXCEPT ![c] = r.fetch_head]
             /\ lastTransfer' = [lastTransfer EXCEPT ![c] = r.transfer]
             /\ readOnly' = r.read_only
             /\ ret' = Outcome("claim_files", c, filenames, e, r)
    /\ UNCHANGED <<config, frame>>

----------------------------------------------------------------------------
(* The command line: cli.py *)

\* Repository(repository=root): the clone, or the exception of a root that
\* holds no configured repository.
Repository(root) ==
    IF root \in Clones THEN Return(root)
    ELSE IF root = "tmp" THEN Raise("InvalidGitRepositoryError")
    ELSE Raise("RepositoryNotSetup")

\* cli.get_repository: None for a repository that is not set up; any other
\* exception of the construction goes on to the caller.
get_repository(root) ==
    LET repository == Repository(root)
    IN  IF repository.raised = "RepositoryNotSetup" THEN Return(None)
        ELSE repository

\* "+" or "-"
Sign(b) == IF b THEN "+" ELSE "-"

\* The status line with the two THEIR_*_BRANCH signs in each other's place.
get_status_swapped(repository, filename, commit, answer) ==
    LET spread == IF repository # None THEN answer ELSE 0
    IN  [prop |-> << Sign(HasFlag(spread, MINE_UNCOMMITTED)),
                     Sign(HasFlag(spread, MINE_ACTIVE_BRANCH)),
                     Sign(HasFlag(spread, MINE_OTHER_BRANCH)),
                     Sign(HasFlag(spread, REMOTE_MATCHING_BRANCH)),
                     Sign(HasFlag(spread, REMOTE_OTHER_BRANCH)),
                     Sign(HasFlag(spread, THEIR_MATCHING_BRANCH)),
                     Sign(HasFlag(spread, THEIR_OTHER_BRANCH)),
                     Sign(HasFlag(spread, THEIR_UNCOMMITTED)) >>,
         filename |-> filename,
         sha |-> DictGet(commit, "sha", "-")]

\* get_status: the fields of the status line, which are joined by blanks.
\* `answer` is what repository.get_commit_spread(commit) answers.
get_status(repository, filename, commit, answer) ==
    LET spread == IF repository # None THEN answer ELSE 0
        branches == DictGet(commit, "branches", EmptyDict)
        local == DictGet(branches, "local", <<"-">>)
        remote == DictGet(branches, "remote", <<"-">>)
        author == DictGet(commit, "author", DictGet(commit, "user", "-"))
    IN  [prop |-> << Sign(HasFlag(spread, MINE_UNCOMMITTED)),
                     Sign(HasFlag(spread, MINE_ACTIVE_BRANCH)),
                     Sign(HasFlag(spread, MINE_OTHER_BRANCH)),
                     Sign(HasFlag(spread, REMOTE_MATCHING_BRANCH)),
                     Sign(HasFlag(spread, REMOTE_OTHER_BRANCH)),
                     Sign(HasFlag(spread, THEIR_OTHER_BRANCH)),
                     Sign(HasFlag(spread, THEIR_MATCHING_BRANCH)),
                     Sign(HasFlag(spread, THEIR_UNCOMMITTED)) >>,
         filename |-> filename,
         sha |-> DictGet(commit, "sha", "-"),
         local |-> IF local = <<>> THEN <<"-">> ELSE local,
         remote |-> IF remote = <<>> THEN <<"-">> ELSE remote,
         host |-> DictGet(commit, "host", "-"),
         author |-> IF author = "" THEN "-" ELSE author]

\* Every mask of eight flags.
AllSpreads == 0..255

\* The commits a status line is made for.
StatusCommits ==
    { EmptyDict, RecAbc,
      RecDef @@ [branches |-> [local |-> <<>>, remote |-> <<"main">>],
                 author |-> ""] }

GetStatus(c) ==
    /\ frame[c] = Idle
    /\ ret = Idle
    /\ \E repository \in {None, c}, commit \in StatusCommits,
          answer \in AllSpreads :
         ret' = [op |-> "get_status", clone |-> c, repository |-> repository,
                 commit |-> commit, spread |-> answer,
                 value |-> get_status(repository, File(c, "art/model.fbx"),
                                      commit, answer)]
    /\ UNCHANGED <<transport, cache, fetchHead, config, readOnly, frame,
                   lastTransfer>>

\* The empty path "".
NoPath == File("", "")

\* The -C/--repository option: not given, or the directory of the clone.
RepoOptions(c) == {NoPath, File(c, "")}

\* The FILENAME arguments of `claim`.
ClaimArgs(c) ==
    { <<>>,
      <<File(c, "art/model.fbx")>>,
      <<File(c, "art/tex.png"), File(c, "art/model.fbx")>>,
      <<File("plain", "notes.txt")>> }

\* What the repository finds for one file: its last commit and the spread of
\* that commit.
ClaimAnswers ==
    { [last_commit |-> EmptyDict, spread |-> 0],
      [last_commit |-> RecAbc, spread |-> MINE_ACTIVE_BRANCH],
      [last_commit |-> RecDef, spread |-> THEIR_MATCHING_BRANCH] }

\* What one run of `claim` meets: the answers of the repository, the status
\* of the endpoint, and what get_absolute_path does with the tuple it is
\* handed on line 201.
ClaimEnvs(c) ==
    [answer : [ManagedFiles(c) -> ClaimAnswers],
     status : StatusCodes,
     abs_path : {"TypeError", "no such file"}]

\* A file outside the clone has no history in it.
answer_of(c, e, filename) ==
    IF filename \in ManagedFiles(c) THEN e.answer[filename]
    ELSE [last_commit |-> EmptyDict, spread |-> 0]

\* Repository.make_file_writable: a file whose last commit has no THEIR_*
\* flag is made writable, if the configuration lets permissions be changed,
\* and {} is returned; otherwise the last commit is returned and the
\* permission stays.
make_file_writable(c, read_only, filename, e) ==
    LET a == answer_of(c, e, filename)
        blocked == \E flag \in TheirFlags : HasFlag(a.spread, flag)
    IN  IF blocked
        THEN [commit |-> a.last_commit, read_only |-> read_only, toggled |-> 0]
        ELSE IF DictGet(config, "modify_permissions", FALSE)
             THEN [commit |-> EmptyDict,
                   read_only |-> set_read_only(read_only, filename, FALSE),
                   toggled |-> 1]
             ELSE [commit |-> EmptyDict, read_only |-> read_only,
                   toggled |-> 0]

\* Lines 185-193: one turn of the loop of `claim`.
claim_command_body(c, st, filename, e) ==
    Only({
        IF got.raised # "none" THEN [st EXCEPT !.raised = got.raised]
        ELSE Only({
            [st EXCEPT
                !.repo_filename = IF @ # NoPath THEN @ ELSE filename,
                !.repository = got.value,
                !.read_only = w.read_only,
                !.toggled = @ + w.toggled,
                !.statuses =
                    Append(@, get_status(got.value, filename, w.commit,
                                         answer_of(c, e, filename).spread)),
                !.commits = Append(@, w.commit),
                !.claimables = Append(@, filename),
                !.error = @ \/ Truthy(w.commit)]
            : w \in { IF got.value # None
                      THEN make_file_writable(got.value, st.read_only,
                                              filename, e)
                      ELSE [commit |-> EmptyDict, read_only |-> st.read_only,
                            toggled |-> 0] } })
        : got \in { get_repository((IF st.repo_filename # NoPath
                                    THEN st.repo_filename
                                    ELSE filename).root) } })

RECURSIVE claim_command_loop(_, _, _, _)
claim_command_loop(c, st, filenames, e) ==
    IF filenames = <<>> \/ st.raised # "none" THEN st
    ELSE claim_command_loop(c, claim_command_body(c, st, Head(filenames), e),
                            Tail(filenames), e)

\* The relative paths of a list of files.
relative_paths(c, filenames) ==
    [i \in DOMAIN filenames |-> get_relative_path(c, filenames[i])]

\* Lines 199-205: the claims are pushed, then the files are to be made
\* writable.  `filename` on line 201 is the tuple of all arguments, which
\* get_absolute_path either rejects or turns into the path of no file, so
\* set_read_only is not reached.
claim_command_end(c, st, e) ==
    Only({
        IF read.raised # "none"
        THEN st @@ [raised |-> read.raised, file |-> read.file,
                    ledger |-> transport, gets |-> read.gets, puts |-> 0,
                    transfer |-> AfterGet(lastTransfer[c], transport, read),
                    final_toggles |-> 0]
        ELSE Only({
            st @@ [raised |->
                       IF put.raised # "none" THEN put.raised
                       ELSE IF DictGet(config, "modify_permissions", FALSE)
                               /\ e.abs_path = "TypeError"
                            THEN "TypeError" ELSE "none",
                   file |-> put.file, ledger |-> put.transport,
                   gets |-> read.gets, puts |-> put.puts,
                   transfer |->
                       AfterPut(AfterGet(lastTransfer[c], transport, read),
                                put.transport, put),
                   final_toggles |-> 0]
            : put \in { commits_setter(
                            read.file, transport,
                            update_tracked_commits_list(
                                c, read.value,
                                relative_paths(c, st.claimables)),
                            e.status) } })
        : read \in { commits(cache[c], transport, e.status) } })

\* The `claim` command: what it returned, raised and did.  A process that
\* ends with an exception other than SystemExit also exits with code 1.
claim_command(c, option, filenames, e) ==
    Only({
        LET untouched == [file |-> cache[c], ledger |-> transport,
                          gets |-> 0, puts |-> 0, final_toggles |-> 0,
                          transfer |-> lastTransfer[c]]
            r == IF st.raised # "none" THEN st @@ untouched
                 ELSE IF st.error
                 THEN [st EXCEPT !.raised = "SystemExit"] @@ untouched
                 ELSE IF st.repository = "unbound"
                 THEN [st EXCEPT !.raised = "UnboundLocalError"] @@ untouched
                 ELSE IF st.repository = None
                 THEN [st EXCEPT !.raised = "AttributeError"] @@ untouched
                 ELSE claim_command_end(st.repository, st, e)
        IN  r @@ [exit_code |-> IF r.raised = "none" THEN 0 ELSE 1]
        : st \in { claim_command_loop(
                       c,
                       [repo_filename |-> option, repository |-> "unbound",
                        read_only |-> readOnly, toggled |-> 0,
                        statuses |-> <<>>, commits |-> <<>>,
                        claimables |-> <<>>, error |-> FALSE,
                        raised |-> "none"],
                       filenames, e) } })

ClaimCommand(c) ==
    /\ frame[c] = Idle
    /\ ret = Idle
    /\ \E option \in RepoOptions(c), filenames \in ClaimArgs(c),
          e \in ClaimEnvs(c) :
         \E r \in {claim_command(c, option, filenames, e)} :
            /\ Len(r.ledger) <= MaxLedger
            /\ transport' = r.ledger
            /\ cache' = [cache EXCEPT ![c] = r.file]
            /\ readOnly' = r.read_only
            /\ lastTransfer' =
                   [lastTransfer EXCEPT ![c] = r.transfer]
            /\ ret' = [op |-> "claim", clone |-> c, option |-> option,
                       filenames |-> filenames, status |-> e.status,
                       answers |-> [i \in DOMAIN filenames |->
                                       answer_of(c, e, filenames[i])],
                       before |-> transport,
                       raised |-> r.raised, exit_code |-> r.exit_code,
                       commits |-> r.commits, statuses |-> r.statuses,
                       toggled |-> r.toggled, gets |-> r.gets,
                       puts |-> r.puts, final_toggles |-> r.final_toggles]
    /\ UNCHANGED <<fetchHead, config, frame>>

\* The directories the process may be started in.
Cwds(c) == {c} \cup UnmanagedRoots

\* The REPOSITORY arguments of `update`: the directory and a file of the
\* clone, and roots that hold no configured repository.
UpdateArgs(c) ==
    { <<>>,
      <<File(c, "")>>,
      <<File(c, "art/model.fbx"), File(c, "")>>,
      <<File("plain", "")>>,
      <<File("plain", "notes.txt"), File(c, "")>>,
      <<File("tmp", "")>> }

\* What one run of `update` meets: the status of the endpoint, whether the
\* tracked files are on disk, and the files update_file_permissions finds
\* the clone free to write.
UpdateEnvs ==
    [status : StatusCodes,
     isfile : BOOLEAN,
     writable : {{}, {"art/model.fbx"}, RelPaths}]

\* Repository.update_file_permissions over repository.files: a file is
\* left writable if the clone may write it and read-only otherwise.
update_file_permissions(root, read_only, e) ==
    [f \in DOMAIN read_only |->
        IF f \in ManagedFiles(root) /\ e.isfile
        THEN f.rel \notin e.writable
        ELSE read_only[f]]

\* Lines 111-120 without the test of the configuration.
update_permissions_unguarded(root, st, e) ==
    [st EXCEPT !.read_only = update_file_permissions(root, @, e)]

\* Lines 111-120: the permissions of the tracked files are brought up to
\* date if the configuration asks for it.
update_permissions(root, st, e) ==
    IF DictGet(config, "modify_permissions", FALSE)
    THEN [st EXCEPT !.read_only = update_file_permissions(root, @, e)]
    ELSE st

\* Repository.update_tracked_commits() of the repository in `root`: the
\* ledger is read and written back.
update_tracked_commits(root, st, e) ==
    Only({
        IF read.raised # "none"
        THEN [st EXCEPT
                 !.raised = read.raised,
                 !.cache[root] = read.file,
                 !.transfer[root] = AfterGet(@, st.transport, read)]
        ELSE Only({
            [st EXCEPT
                !.raised = put.raised,
                !.cache[root] = put.file,
                !.transport = put.transport,
                !.transfer[root] =
                    AfterPut(AfterGet(@, st.transport, read),
                             put.transport, put)]
            : put \in { commits_setter(
                            read.file, st.transport,
                            update_tracked_commits_list(root, read.value,
                                                        <<>>),
                            e.status) } })
        : read \in { commits(st.cache[root], st.transport, e.status) } })

\* Lines 104-120: one turn of the loop of `update`.  "" names the directory
\* the process runs in.
update_body(st, repo_filename, cwd, e) ==
    Only({
        IF got.raised # "none" THEN [st EXCEPT !.raised = got.raised]
        ELSE LET repository == got.value
                 root == IF repository # None THEN repository ELSE ""
             IN  IF root = "" \/ root \in st.synced THEN st
                 ELSE Only({
                     IF after.raised # "none" THEN after
                     ELSE update_permissions(
                              root, [after EXCEPT !.synced = @ \cup {root}],
                              e)
                     : after \in { update_tracked_commits(
                                       root,
                                       [st EXCEPT !.updated = Append(@, root)],
                                       e) } })
        : got \in { get_repository(IF repo_filename = NoPath THEN cwd
                                   ELSE repo_filename.root) } })

RECURSIVE update_loop(_, _, _, _)
update_loop(st, repositories, cwd, e) ==
    IF repositories = <<>> \/ st.raised # "none" THEN st
    ELSE update_loop(update_body(st, Head(repositories), cwd, e),
                     Tail(repositories), cwd, e)

\* The `update` command: the option comes first in the list of repositories.
update_command(option, repository, cwd, e) ==
    update_loop([cache |-> cache, transport |-> transport,
                 transfer |-> lastTransfer, read_only |-> readOnly,
                 synced |-> {}, updated |-> <<>>, raised |-> "none"],
                <<option>> \o repository, cwd, e)

UpdateCommand(c) ==
    /\ frame[c] = Idle
    /\ ret = Idle
    /\ \E option \in RepoOptions(c), repository \in UpdateArgs(c),
          cwd \in Cwds(c), e \in UpdateEnvs :
         \E r \in {update_command(option, repository, cwd, e)} :
            /\ transport' = r.transport
            /\ cache' = r.cache
            /\ readOnly' = r.read_only
            /\ lastTransfer' = r.transfer
            /\ ret' = [op |-> "update_command", clone |-> c,
                       option |-> option, repository |-> repository,
                       cwd |-> cwd, status |-> e.status,
                       raised |-> r.raised,
                       exit_code |-> IF r.raised = "none" THEN 0 ELSE 1,
                       updated |-> r.updated]
    /\ UNCHANGED <<fetchHead, config, frame>>

----------------------------------------------------------------------------

\* The caller has taken the result (or the exception) of its call and goes
\* on; its next call starts from here.
Resume ==
    /\ ret # Idle
    /\ ret' = Idle
    /\ UNCHANGED <<transport, cache, fetchHead, config, readOnly, frame,
                   lastTransfer>>

Init ==
    /\ transport \in InitLedgers
    /\ cache = [c \in Clones |-> NoFile]
    /\ fetchHead = [c \in Clones |-> NoFile]
    /\ config \in Configs
    /\ readOnly = [f \in AllFiles |-> TRUE]
    /\ frame = [c \in Clones |-> Idle]
    /\ ret = Idle
    /\ lastTransfer = [c \in Clones |-> NoTransfer]

\* The batch operations, called one after the other by a process that works
\* in clone c1 while the clock ticks.
Next ==
    \/ Tick
    \/ \E c \in Actors : GetFilesLastCommits(c)
    \/ \E c \in Actors : GetCommitsBranches(c)
    \/ \E c \in Actors : GetCommitChanges(c)
    \/ \E c \in Actors : ClaimFiles(c)
    \/ Resume

Spec == Init /\ [][Next]_vars

\* The ledger updates of all the clones, interleaved at their store accesses.
NextStore ==
    \/ Tick
    \/ \E c \in Clones : UpdateRead(c)
    \/ \E c \in Clones : UpdateWrite(c)

\* The store reads nothing but pull_threshold from the configuration, which
\* no configuration here sets: one configuration stands for all.
InitStore == Init /\ config = EmptyDict

SpecStore == InitStore /\ [][NextStore]_vars

\* The commands of the command line and claim_files, run one after the other
\* by a process that works in clone c1, within the time the cache stays new.
NextCli ==
    \/ \E c \in Actors : ClaimCommand(c)
    \/ \E c \in Actors : UpdateCommand(c)
    \/ \E c \in Actors : ClaimFiles(c)
    \/ Resume

\* The ledger is empty or full when the commands start.
InitCli == Init /\ transport \in {<<>>, <<RecAbc, RecDef>>}

SpecCli == InitCli /\ [][NextCli]_vars

\* The status line, made for every mask.
NextStatus ==
    \/ Tick
    \/ \E c \in Actors : GetStatus(c)
    \/ Resume

SpecStatus == Init /\ [][NextStatus]_vars

----------------------------------------------------------------------------
(* Properties *)

Range(l) == {l[i] : i \in DOMAIN l}

Unmanaged(filename) == get_repository_safe(filename) = None

\* No THEIR_* flag is set.
IsFree(spread) == \A flag \in TheirFlags : ~HasFlag(spread, flag)

\* The child processes exit 0 and print a branch.
ProcShowsBranch(proc) == proc.returncode = 0 /\ proc.stdout # ""

\* A call of one managed, existing file in an environment where the endpoint
\* answers 200, the history knows the path and the processes print a branch.
OneManagedFile(r) ==
    /\ Len(r.filenames) = 1
    /\ ~Unmanaged(r.filenames[1])
    /\ r.env.status = 200
    /\ r.env.exists
    /\ r.env.history = "abc"
    /\ ProcShowsBranch(r.env.proc)

\* C1: get_files_last_commits returns {} at the position of every unmanaged
\* path, and a call handed unmanaged paths only never raises.
C1_UnmanagedPathsYieldEmptyRecords ==
    ret.op = "get_files_last_commits" =>
        /\ (\A i \in DOMAIN ret.filenames : Unmanaged(ret.filenames[i]))
               => ret.raised = "none"
        /\ ret.raised = "none" =>
               /\ Len(ret.value) = Len(ret.filenames)
               /\ \A i \in DOMAIN ret.filenames :
                      Unmanaged(ret.filenames[i]) => ret.value[i] = EmptyDict

\* C2: claim_files returns {} and makes the file writable when the spread of
\* the last commit is free, and returns the last commit and leaves the file
\* read-only when the spread has a THEIR_* flag.
C2_ClaimProtocol ==
    (ret.op = "claim_files" /\ OneManagedFile(ret)) =>
        /\ ret.raised = "none"
        /\ IsFree(ret.env.spread) =>
               /\ ret.value = <<EmptyDict>>
               /\ DictGet(config, "modify_permissions", FALSE)
                      => ~readOnly[ret.filenames[1]]
        /\ ~IsFree(ret.env.spread) =>
               /\ Truthy(ret.value[1])
               /\ readOnly[ret.filenames[1]]

\* C3: when get_files_last_commits selects a ledger record with a sha and
\* the remote branch query shows a branch, the ledger at the endpoint no
\* longer holds the record after the call.
C3_SelfHealRemovesRecord ==
    (/\ ret.op = "get_files_last_commits"
     /\ ret.env.status = 200
     /\ ProcShowsBranch(ret.env.proc)) =>
        \A i \in DOMAIN ret.selected :
            "sha" \in DOMAIN ret.selected[i]
                => ret.selected[i] \notin Range(transport)

\* The list clone c is about to write.
ListToWrite(c) ==
    update_tracked_commits_list(c, frame[c].tracked_commits, frame[c].claims)

C6_LastWriterWins ==
    [][/\ transport' # transport =>
              \E c \in Clones : UpdateWrite(c) /\ transport' = ListToWrite(c)
       /\ \A c \in Clones :
              (UpdateWrite(c) /\ ret'.raised = "none")
                  => transport' = ListToWrite(c)]_vars

\* Two clones read the empty ledger, both wrote their claim: only the claim
\* of the later writer is left.
C6_LaterWriteReplacedEarlier ==
    /\ ret.op = "update"
    /\ ret.raised = "none"
    /\ "raced" \in DOMAIN ret
    /\ ret.raced
    /\ transport = <<Claim(OriginUrl, ret.clone, <<"art/model.fbx">>, Today)>>

\* C7: of the records read from the ledger, one without sha is neither
\* relevant nor selected when track_uncommitted is disabled or absent, and is
\* relevant when track_uncommitted is enabled, its remote is the remote of
\* the repository and its changes hold the path.
C7_UncommittedFilter ==
    (ret.op \in {"get_files_last_commits", "claim_files"} /\ ret.path # None) =>
        \A i \in DOMAIN ret.tracked_commits :
            LET t == ret.tracked_commits[i]
                track_uncommitted == DictGet(config, "track_uncommitted", FALSE)
            IN  "sha" \notin DOMAIN t =>
                    /\ ~track_uncommitted =>
                           /\ t \notin Range(ret.relevant)
                           /\ t \notin Range(ret.selected)
                    /\ (/\ track_uncommitted
                        /\ t.remote = remote_url(ret.clone)
                        /\ \E j \in DOMAIN t.changes :
                               normpath(t.changes[j]) = normpath(ret.path))
                           => t \in Range(ret.relevant)

\* With track_uncommitted disabled the ledger read holds a claim on the path,
\* no record is relevant and the history is asked instead.
C7_ClaimIgnored ==
    /\ ret.op = "get_files_last_commits"
    /\ ~DictGet(config, "track_uncommitted", FALSE)
    /\ ret.path = "art/model.fbx"
    /\ RecClaim \in Range(ret.tracked_commits)
    /\ ret.relevant = <<>>
    /\ ret.logs = 1

\* C8: get_commits_branches returns one result for each commit handed in.
C8_OneResultPerCommit ==
    (ret.op = "get_commits_branches" /\ ProcShowsBranch(ret.proc)) =>
        /\ ret.raised = "none"
        /\ Len(ret.value) = Len(ret.commits)

\* C9: a branch query whose command exits non-zero or prints nothing yields
\* an empty set for its commit, and neither get_commits_branches nor
\* get_files_last_commits raises because of it.
C9_FailedQueryYieldsEmptySet ==
    /\ (ret.op = "get_commits_branches" /\ ~ProcShowsBranch(ret.proc)) =>
           /\ ret.raised = "none"
           /\ Len(ret.value) = Len(ret.commits)
           /\ \A i \in DOMAIN ret.value : ret.value[i] = {}
    /\ (ret.op = "get_files_last_commits" /\ ~ProcShowsBranch(ret.env.proc)) =>
           ret.raised \notin {"Exception", "IndexError"}

\* C10: after claim_files claimed a file whose spread is free, the ledger
\* holds a claim (a record without sha) of the clone on the path.
C10_ClaimIsRecorded ==
    (ret.op = "claim_files" /\ OneManagedFile(ret) /\ IsFree(ret.env.spread)) =>
        /\ ret.raised = "none"
        /\ \E i \in DOMAIN transport :
               /\ "sha" \notin DOMAIN transport[i]
               /\ transport[i].remote = remote_url(ret.clone)
               /\ transport[i].clone = ret.clone
               /\ \E j \in DOMAIN transport[i].changes :
                      normpath(transport[i].changes[j])
                          = normpath(ret.filenames[1].rel)

\* The status the endpoint answered to the read of clone c in this step
\* (0 if the read was served from the cache).
ReadStatus(c) ==
    IF frame'[c].op = "update" THEN frame'[c].status ELSE ret'.status

GoodEnv(e) ==
    e.status = 200 /\ ProcShowsBranch(e.proc) /\ e.history = "abc"

\* C13: get_files_last_commits returns one element for each input path, and
\* get_commit_changes one change list for each commit, the stored changes
\* at the index of each dictionary.
C13_ParallelResults ==
    /\ (ret.op = "get_files_last_commits" /\ GoodEnv(ret.env)) =>
           /\ ret.raised = "none"
           /\ Len(ret.value) = Len(ret.filenames)
    /\ (ret.op = "get_commit_changes" /\ ProcShowsBranch(ret.proc)) =>
           /\ ret.raised = "none"
           /\ Len(ret.value) = Len(ret.commits)
           /\ \A i \in DOMAIN ret.commits :
                  IsDict(ret.commits[i])
                      => ret.value[i] = DictGet(ret.commits[i], "changes", <<>>)

\* A ledger candidate of clone c for the path.
Candidate(t, c, path, track_uncommitted) ==
    /\ DictGet(t, "remote", None) = remote_url(c)
    /\ \E j \in DOMAIN DictGet(t, "changes", <<>>) :
           normpath(t.changes[j]) = normpath(path)
    /\ track_uncommitted \/ "sha" \in DOMAIN t

\* C14: when the ledger read holds candidates for the path, the record
\* selected is a candidate and none of the candidates has a later date; when
\* it holds none, no record is selected.
C14_LatestCandidateSelected ==
    (ret.op \in {"get_files_last_commits", "claim_files"} /\ ret.path # None) =>
        LET candidates ==
                {t \in Range(ret.tracked_commits) :
                     Candidate(t, ret.clone, ret.path,
                               DictGet(config, "track_uncommitted", FALSE))}
        IN  IF candidates = {} THEN ret.selected = <<>>
            ELSE /\ Len(ret.selected) = 1
                 /\ ret.selected[1] \in candidates
                 /\ \A t \in candidates : t.date <= ret.selected[1].date

\* The ledger holds the newer candidate first: it is the one selected.
C14_NewerSelectedThoughFirst ==
    /\ ret.op = "get_files_last_commits"
    /\ ret.tracked_commits = <<RecDef, RecAbc>>
    /\ ret.path = "art/model.fbx"
    /\ ret.selected = <<RecDef>>

\* C16: claim_files returns one result for each input file also when the
\* operating system refuses to toggle a permission.
C16_ToggleFailureDoesNotAbort ==
    (ret.op = "claim_files" /\ GoodEnv(ret.env) /\ ~ret.env.toggle_ok) =>
        /\ ret.raised = "none"
        /\ Len(ret.value) = Len(ret.filenames)

\* C17: for a managed path without a ledger candidate the call fetches only
\* if the last fetch is older than pull_threshold and returns a record,
\* whether or not the fetch succeeds.
C17_HistoryFallbackReturns ==
    (/\ ret.op = "get_files_last_commits"
     /\ Len(ret.filenames) = 1
     /\ GoodEnv(ret.env)
     /\ ret.path # None
     /\ ret.relevant = <<>>) =>
        /\ ret.fetches <= 1
        /\ ret.raised = "none"
        /\ Len(ret.value) = 1

FlagOrder ==
    << MINE_UNCOMMITTED, MINE_ACTIVE_BRANCH, MINE_OTHER_BRANCH,
       REMOTE_MATCHING_BRANCH, REMOTE_OTHER_BRANCH, THEIR_OTHER_BRANCH,
       THEIR_MATCHING_BRANCH, THEIR_UNCOMMITTED >>

\* C18: the first field of the status line has eight characters, the i-th
\* is "+" if there is a repository and the i-th flag of the mask is set, and
\* "-" otherwise.
C18_StatusField ==
    ret.op = "get_status" =>
        /\ Len(ret.value.prop) = 8
        /\ \A i \in 1..8 :
               ret.value.prop[i] =
                   IF ret.repository # None /\ HasFlag(ret.spread, FlagOrder[i])
                   THEN "+" ELSE "-"

\* The line of a commit that is on my active branch and uncommitted in
\* another clone.
C18_MineAndTheirs ==
    /\ ret.op = "get_status"
    /\ ret.repository # None
    /\ ret.spread = THEIR_UNCOMMITTED + MINE_ACTIVE_BRANCH
    /\ ret.value.prop = <<"-", "+", "-", "-", "-", "-", "-", "+">>

\* C11 as stated: `claim` exits with code 1 exactly when the repository
\* returned a non-empty conflicting commit for one of the files, and a run
\* that exits with code 1 has sent no PUT and made no file writable in its
\* last step.  The endpoint answers 200.
C11_ExitCodeOfClaim ==
    (ret.op = "claim" /\ ret.status = 200) =>
        /\ ret.exit_code = 1 <=>
               \E i \in DOMAIN ret.commits : ret.commits[i] # EmptyDict
        /\ ret.exit_code = 1 => ret.puts = 0 /\ ret.final_toggles = 0

\* C20 as stated: one run of `update` calls update_tracked_commits at most
\* once for a working directory, and an argument that resolves to no set-up
\* repository is skipped without an error.  The endpoint answers 200.
C20_UpdateOncePerRepository ==
    (ret.op = "update_command" /\ ret.status = 200) =>
        /\ \A i, j \in DOMAIN ret.updated :
               ret.updated[i] = ret.updated[j] => i = j
        /\ ret.raised = "none"

\* C15: while the configuration does not enable modify_permissions, no step
\* of claim_files, of `claim` or of `update` changes the read-only state of
\* a file.
C15_NoToggleWhenDisabled ==
    [][~DictGet(config, "modify_permissions", FALSE) => readOnly' = readOnly]_vars

\* `update` has synchronised the clone with permissions left alone by the
\* configuration, and every file is as it was.
C15_UpdatedWithoutToggle ==
    /\ ret.op = "update_command"
    /\ ret.raised = "none"
    /\ ret.updated = <<"c1">>
    /\ ~DictGet(config, "modify_permissions", FALSE)
    /\ \A f \in AllFiles : readOnly[f]

\* The self-heal case of a call: the endpoint answers 200, git shows a
\* branch, and the record selected for the i-th managed path has a sha.
SelfHealCases(r) ==
    IF r.env.status = 200 /\ ProcShowsBranch(r.env.proc)
    THEN {i \in DOMAIN r.selected : "sha" \in DOMAIN r.selected[i]}
    ELSE {}

Stale(file, ledger) == file.exists /\ file.content # ledger

\* C22: a cache that exists holds the ledger its clone transferred last with
\* a 200 answer (the body of its GET or the list of its PUT), and a cache
\* comes to differ from the ledger at the endpoint only in a step in which
\* another clone writes; a read served from the cache returns that content
\* from a cache younger than pull_threshold.
C22_CacheCoherence ==
    /\ [](\A c \in Clones :
              cache[c].exists =>
                  /\ lastTransfer[c].kind # "none"
                  /\ cache[c].content = lastTransfer[c].ledger)
    /\ [][\A c \in Clones :
              /\ (Stale(cache'[c], transport') /\ ~Stale(cache[c], transport))
                     => \E d \in Clones \ {c} :
                            UpdateWrite(d) /\ transport' # transport
              /\ (UpdateRead(c) /\ frame'[c] # Idle /\ frame'[c].gets = 0)
                     => /\ frame'[c].tracked_commits = lastTransfer[c].ledger
                        /\ cache[c].age < PullThreshold]_vars

\* Clone c1 still holds the ledger it transferred, clone c2 has written
\* another one since, and c1 has just read its own from the cache.
C22_StaleReadAfterOtherWrite ==
    /\ Stale(cache["c1"], transport)
    /\ lastTransfer["c2"] = [kind |-> "put", ledger |-> transport]
    /\ frame["c1"] # Idle
    /\ frame["c1"].gets = 0
    /\ frame["c1"].tracked_commits # transport

====
